---- MODULE Spec2Model ----
(***************************************************************************)
(* A model of the request-to-response pipeline of basic-http-server        *)
(* (src/main.rs, src/error.rs): method gate, URI decoding, path mapping,   *)
(* directory redirect, file streaming with script injection, and the       *)
(* translation of errors to HTTP responses.                                *)
(*                                                                         *)
(* Strings are sequences of tokens.  A token is one path separator "/",    *)
(* one percent escape ("%2F", "%FF"), or a run of ordinary characters that *)
(* the model never needs to look inside ("docs", "index.html", "..").      *)
(***************************************************************************)
EXTENDS Integers, Sequences, FiniteSets, TLC

(***************************************************************************)
(* Bounds of the model.                                                    *)
(***************************************************************************)
\* Longest raw request path, in tokens.
MaxLen == 4
\* Most bytes one read of the body stream returns.
ChunkSize == 2

(***************************************************************************)
(* Generic helpers on sequences and on Option / Result values.             *)
(***************************************************************************)
None == <<>>
Some(x) == <<x>>
IsSome(o) == o # <<>>
Unwrap(o) == o[1]

Ok(v) == [ok |-> TRUE, val |-> v]
Err(e) == [ok |-> FALSE, err |-> e]

StartsWith(s, c) == s # <<>> /\ s[1] = c
EndsWith(s, c) == s # <<>> /\ s[Len(s)] = c
Min(a, b) == IF a < b THEN a ELSE b

\* Body at the value of v (v is evaluated once, then Body).
With(v, Body(_)) == CHOOSE r \in {Body(x) : x \in {v}} : TRUE

(***************************************************************************)
(* error.rs: the Error enum.  Only Io carries a payload that the model     *)
(* keeps (the io::ErrorKind); the other variants are tags.                 *)
(***************************************************************************)
IoError(kind) == [kind |-> "Io", io |-> kind]
UriNotUtf8 == [kind |-> "UriNotUtf8", io |-> ""]
UriNotAbsolute == [kind |-> "UriNotAbsolute", io |-> ""]
TemplateRender == [kind |-> "TemplateRender", io |-> ""]

\* Mutant: the I/O error is wrapped in the wrong variant.
FromIoErrorAsHttp(kind) == [kind |-> "Http", io |-> kind]

\* impl From<io::Error> for Error
FromIoError(kind) == IoError(kind)

\* derive(Display) on Error
ErrorDisplay(e) ==
    CASE e.kind = "Io" -> "I/O error"
      [] e.kind = "TemplateRender" -> "failed to render template"
      [] e.kind = "UriNotAbsolute" -> "requested URI is not an absolute path"
      [] e.kind = "UriNotUtf8" -> "requested URI is not UTF-8"
      [] OTHER -> "HTTP error"

(***************************************************************************)
(* HTTP status codes used by the handler.                                  *)
(***************************************************************************)
StatusOk == 200
StatusFound == 302
StatusNotFound == 404
StatusMethodNotAllowed == 405
StatusInternalServerError == 500

\* format!("{}", status)
StatusDisplay(status) ==
    CASE status = StatusNotFound -> "404 Not Found"
      [] status = StatusMethodNotAllowed -> "405 Method Not Allowed"
      [] status = StatusInternalServerError -> "500 Internal Server Error"
      [] status = StatusFound -> "302 Found"
      [] OTHER -> "200 OK"

(***************************************************************************)
(* Config: the root directory is the absolute path /srv.                   *)
(***************************************************************************)
RootDir == <<"/", "srv">>

(***************************************************************************)
(* The filesystem the server runs on: a tree of directories and regular    *)
(* files, each node named by its names from "/".  There are no symbolic    *)
(* links, and every file is readable.                                      *)
(***************************************************************************)
InitialFs ==
    [dirs |-> {<<>>, <<"srv">>, <<"srv", "docs">>},
     files |-> (<<"srv", "docs", "index.html">> :> <<"h1", "h2", "h3">>)
            @@ (<<"srv", "A.HTML">> :> <<"a1">>)
            @@ (<<"srv", "s.css">> :> <<"c1", "c2">>)
            @@ (<<"secret">> :> <<"x1">>)]

FsNodes(fsys) == fsys.dirs \cup DOMAIN fsys.files

\* The path split at every "/": "/a//b/" gives "", "a", "", "b", "".
RECURSIVE SplitFrom(_, _, _)
SplitFrom(s, done, current) ==
    IF s = <<>> THEN Append(done, current)
    ELSE IF Head(s) = "/" THEN SplitFrom(Tail(s), Append(done, current), <<>>)
    ELSE SplitFrom(Tail(s), done, Append(current, Head(s)))

SplitPath(s) == With(s, LAMBDA path : SplitFrom(path, <<>>, <<>>))

\* One step of the operating system's walk of a path, from a node along
\* one component: the current node must be a directory; an empty component
\* stays there, ".." goes to the parent, a name goes to that child.
WalkStep(fsys, node, seg) ==
    IF node \notin fsys.dirs
    THEN Err(IF node \in DOMAIN fsys.files THEN "NotADirectory" ELSE "NotFound")
    ELSE IF seg = <<>> THEN Ok(node)
    ELSE IF seg = <<"..">>
    THEN Ok(IF node = <<>> THEN node ELSE SubSeq(node, 1, Len(node) - 1))
    ELSE IF Len(seg) = 1 /\ (node \o seg) \in FsNodes(fsys) THEN Ok(node \o seg)
    ELSE Err("NotFound")

RECURSIVE Walk(_, _, _)
Walk(fsys, node, segs) ==
    IF segs = <<>> THEN Ok(node)
    ELSE With(WalkStep(fsys, node, Head(segs)),
              LAMBDA next : IF ~next.ok THEN next
                            ELSE Walk(fsys, next.val, Tail(segs)))

\* The node an absolute path names, or the error of the walk.
Resolve(fsys, path) ==
    With(SplitPath(path), LAMBDA segs : Walk(fsys, <<>>, segs))

\* Path::is_dir: false on any error
IsDir(fsys, path) ==
    With(Resolve(fsys, path), LAMBDA r : r.ok /\ r.val \in fsys.dirs)

(***************************************************************************)
(* std::path: PathBuf::push, Path::file_name, Path::extension.             *)
(***************************************************************************)
\* PathBuf::push: an absolute argument replaces the whole path; otherwise a
\* separator is added unless the path already ends with one.
PathBufPush(base, rel) ==
    IF StartsWith(rel, "/") THEN rel
    ELSE IF base # <<>> /\ ~EndsWith(base, "/") THEN base \o <<"/">> \o rel
    ELSE base \o rel

\* Path::file_name: the last component, unless it is "..".
FileName(path) ==
    LET comps == SelectSeq(SplitPath(path), LAMBDA seg : seg # <<>>) IN
    IF comps = <<>> \/ comps[Len(comps)] = <<"..">> THEN None
    ELSE Some(comps[Len(comps)])

\* What follows the last dot inside one token, if the token has a dot.
TokenExt(tok) ==
    CASE tok = "index.html" -> Some("html")
      [] tok = "A.HTML" -> Some("HTML")
      [] tok = "s.css" -> Some("css")
      [] tok = ".." -> Some("")
      [] OTHER -> None

\* Path::extension: the part of the file name after its last dot.
Extension(path) ==
    LET name == FileName(path) IN
    IF ~IsSome(name) THEN None
    ELSE LET seg == Unwrap(name)
             dots == {i \in 1..Len(seg) : IsSome(TokenExt(seg[i]))}
         IN IF dots = {} THEN None
            ELSE LET k == CHOOSE i \in dots : \A j \in dots : j <= i
                 IN Some(<<Unwrap(TokenExt(seg[k]))>> \o SubSeq(seg, k + 1, Len(seg)))

ToAsciiLower(tok) == IF tok = "HTML" THEN "html" ELSE tok

\* Mutant: the extension is compared with its letter case.
EqCaseSensitive(ext, word) == Len(ext) = 1 /\ ext[1] = word

\* OsStr::eq_ignore_ascii_case
EqIgnoreAsciiCase(ext, word) ==
    Len(ext) = 1 /\ ToAsciiLower(ext[1]) = ToAsciiLower(word)

\* matches!(path.extension(), Some(ext) if ext.eq_ignore_ascii_case("html"))
HasHtmlExtension(path) ==
    LET ext == Extension(path) IN
    IsSome(ext) /\ EqIgnoreAsciiCase(Unwrap(ext), "html")

\* file_path_mime: mime_guess by (case-insensitive) extension
FilePathMime(path) ==
    LET ext == Extension(path) IN
    IF IsSome(ext) /\ EqIgnoreAsciiCase(Unwrap(ext), "html") THEN "text/html"
    ELSE IF IsSome(ext) /\ EqIgnoreAsciiCase(Unwrap(ext), "css") THEN "text/css"
    ELSE "application/octet-stream"

(***************************************************************************)
(* What other processes do to the filesystem while the server runs: write  *)
(* a regular file in place (create, truncate, append) and make a           *)
(* directory.  The server itself never writes.                             *)
(***************************************************************************)
Parent(node) == SubSeq(node, 1, Len(node) - 1)

WriteFile(fsys, node, bytes) ==
    [fsys EXCEPT !.files = (node :> bytes) @@ @]

CreateDir(fsys, node) ==
    [fsys EXCEPT !.dirs = @ \cup {node}]

WritableNodes == {<<"srv", "s.css">>, <<"srv", "secret", "index.html">>}

NewContents == {<<>>, <<"c1", "c2", "c3">>}

NewDirs == {<<"srv", "secret">>}

(***************************************************************************)
(* Requests.  A request is its method, the raw path of its URI and the     *)
(* URI's optional query.                                                   *)
(***************************************************************************)
Methods == {"GET", "POST"}

PathAlphabet ==
    {"/", "..", "docs", "index.html", "A.HTML", "s.css", "secret", "%2F", "%FF"}

\* Request targets hyper hands to the service: origin form (a path that
\* starts with "/") and the asterisk form "*".
RawPaths ==
    {<<"*">>} \cup
    {p \in UNION {[1..k -> PathAlphabet] : k \in 1..MaxLen} : p[1] = "/"}

Queries == {None, Some(<<>>), Some(<<"q=1">>)}

Requests == [method : Methods, path : RawPaths, query : Queries]

NoRequest == [method |-> "", path |-> <<>>, query |-> None]

\* The requests of the specifications with several tasks or a changing
\* filesystem: one raw path for each way serve_or_error can end (redirect,
\* directory index, plain file, HTML file, missing path, invalid UTF-8,
\* asterisk form), under both methods.
SamplePaths ==
    {<<"/", "docs">>, <<"/", "docs", "/">>, <<"/", "s.css">>, <<"/", "A.HTML">>,
     <<"/", "secret">>, <<"/", "%FF">>, <<"*">>}

SampleRequests == [method : Methods, path : SamplePaths, query : {None}]

(***************************************************************************)
(* main.rs: mapping the request URI to a local path.                       *)
(***************************************************************************)
InvalidByte == "0xFF"

\* percent_decode_str: every escape becomes the byte it names
DecodeToken(tok) ==
    CASE tok = "%2F" -> "/"
      [] tok = "%FF" -> InvalidByte
      [] OTHER -> tok

PercentDecodeStr(s) == [i \in 1..Len(s) |-> DecodeToken(s[i])]

\* PercentDecode::decode_utf8
DecodeUtf8(bytes) ==
    IF \E i \in 1..Len(bytes) : bytes[i] = InvalidByte
    THEN Err("Utf8Error") ELSE Ok(bytes)

\* request_path[0..request_path.find('?').unwrap_or(len)]
TrimQuery(s) ==
    LET qs == {i \in 1..Len(s) : s[i] = "?"} IN
    IF qs = {} THEN s
    ELSE SubSeq(s, 1, (CHOOSE i \in qs : \A j \in qs : i <= j) - 1)

\* local_path_for_request
LocalPathForRequest(uri, root_dir) ==
    With(DecodeUtf8(PercentDecodeStr(TrimQuery(uri.path))),
         LAMBDA decoded :
            IF ~decoded.ok THEN Err(UriNotUtf8)
            ELSE IF StartsWith(decoded.val, "/")
                 THEN Ok(PathBufPush(root_dir, Tail(decoded.val)))
                 ELSE Err(UriNotAbsolute))

\* Mutant: a directory is not mapped to its index.html.
LocalPathWithoutIndex(uri, root_dir, fsys) == LocalPathForRequest(uri, root_dir)

\* local_path_with_maybe_index
LocalPathWithMaybeIndex(uri, root_dir, fsys) ==
    With(LocalPathForRequest(uri, root_dir),
         LAMBDA p :
            IF ~p.ok THEN p
            ELSE IF IsDir(fsys, p.val) THEN Ok(PathBufPush(p.val, <<"index.html">>))
            ELSE p)

(***************************************************************************)
(* Responses.  The header map is a record of the four headers the handler  *)
(* ever sets; "", <<>> and -1 stand for a header that is absent.  The body *)
(* is empty, a string held in memory ("html", "text"), or the lazy stream  *)
(* of an open file ("stream").                                             *)
(***************************************************************************)
EmptyHeaders ==
    [allow |-> "", location |-> <<>>, contentLength |-> -1, contentType |-> ""]

\* The state of the program.
VARIABLES
    fs,          \* the filesystem
    templateOk,  \* whether Handlebars renders HTML_TEMPLATE (fixed per build)
    pc,          \* per request task: where its handler stands
    req,         \* per task: the request being served
    localPath,   \* per task: the path handed to respond_with_file
    stream,      \* per task: the body stream of a file response
    responses,   \* per task: what the service returned to hyper, in order
    delivered,   \* per task: the body bytes pulled from the stream so far
    errors,      \* per task: the errors that reached transform_error
    produced,    \* per task: the paths local_path_for_request returned
    fsLog        \* per task: the filesystem operations performed

vars == <<fs, templateOk, pc, req, localPath, stream, responses, delivered,
          errors, produced, fsLog>>

\* Mutant: the template is consumed by its first rendering, in any task.
RenderHtmlOnce(cfg) ==
    IF templateOk /\ \A u \in DOMAIN responses : responses[u] = <<>>
    THEN Ok(<<"<html>", cfg.title, cfg.body, "</html>">>)
    ELSE Err(TemplateRender)

\* Mutant: the renderer is shared and stays broken once any task has failed.
RenderHtmlSharedFailure(cfg) ==
    IF templateOk /\ \A u \in DOMAIN errors : errors[u] = <<>>
    THEN Ok(<<"<html>", cfg.title, cfg.body, "</html>">>)
    ELSE Err(TemplateRender)

\* render_html: Handlebars::render_template on the fixed template
RenderHtml(cfg) ==
    IF templateOk THEN Ok(<<"<html>", cfg.title, cfg.body, "</html>">>)
    ELSE Err(TemplateRender)

\* render_error_html
RenderErrorHtml(status) ==
    RenderHtml([title |-> StatusDisplay(status), body |-> ""])

\* html_str_to_response_with_headers
HtmlStrToResponseWithHeaders(body, status, headers) ==
    Ok([status |-> status,
        headers |-> [headers EXCEPT !.contentLength = Len(body),
                                    !.contentType = "text/html"],
        body |-> "html",
        text |-> body])

\* make_error_response_from_code_and_headers
MakeErrorResponseFromCodeAndHeaders(status, headers) ==
    LET body == RenderErrorHtml(status) IN
    IF ~body.ok THEN body
    ELSE HtmlStrToResponseWithHeaders(body.val, status, headers)

\* make_error_response_from_code
MakeErrorResponseFromCode(status) ==
    MakeErrorResponseFromCodeAndHeaders(status, EmptyHeaders)

\* Mutant: the fallback response has no body.
ResponseNewEmpty(text) ==
    [status |-> StatusOk, headers |-> EmptyHeaders, body |-> "empty", text |-> <<>>]

\* Response::new(Body::from(text)): status 200, no headers
ResponseNew(text) ==
    [status |-> StatusOk, headers |-> EmptyHeaders, body |-> "text", text |-> text]

\* Mutant: every error is an internal server error.
ErrorStatusAlways500(err) == StatusInternalServerError

\* The status transform_error chooses for an error.
ErrorStatus(err) ==
    IF err.kind = "Io" THEN StatusNotFound ELSE StatusInternalServerError

\* transform_error
TransformError(resp) ==
    With(IF resp.ok THEN resp ELSE MakeErrorResponseFromCode(ErrorStatus(resp.err)),
         LAMBDA r :
            IF r.ok THEN r.val
            ELSE ResponseNew(<<"unexpected internal error: ", ErrorDisplay(r.err)>>))

\* Mutant: the 405 is built without the Allow header.
GetUnsupportedRequestMessageNoAllow(request) ==
    IF request.method # "GET"
    THEN Some([code |-> StatusMethodNotAllowed, headers |-> EmptyHeaders])
    ELSE None

\* get_unsupported_request_message
GetUnsupportedRequestMessage(request) ==
    IF request.method # "GET"
    THEN Some([code |-> StatusMethodNotAllowed,
               headers |-> [EmptyHeaders EXCEPT !.allow = "GET"]])
    ELSE None

\* Mutant: no request is unsupported.
HandleUnsupportedRequestNever(request) == None

\* handle_unsupported_request
HandleUnsupportedRequest(request) ==
    LET unsup == GetUnsupportedRequestMessage(request) IN
    IF IsSome(unsup)
    THEN Some(MakeErrorResponseFromCodeAndHeaders(Unwrap(unsup).code,
                                                  Unwrap(unsup).headers))
    ELSE None

\* Mutant: the redirect drops the query.
RedirectLocationNoQuery(uri) == uri.path \o <<"/">>

\* The Location try_dir_redirect builds: path, "/", and "?" query if any.
RedirectLocation(uri) ==
    uri.path \o <<"/">>
    \o (IF IsSome(uri.query) THEN <<"?">> \o Unwrap(uri.query) ELSE <<>>)

\* try_dir_redirect
TryDirRedirect(request, root_dir, fsys) ==
    IF EndsWith(request.path, "/") THEN Ok(None)
    ELSE With(LocalPathForRequest(request, root_dir),
              LAMBDA path :
                 IF ~path.ok THEN path
                 ELSE IF ~IsDir(fsys, path.val) THEN Ok(None)
                 ELSE Ok(Some([status |-> StatusFound,
                               headers |-> [EmptyHeaders EXCEPT
                                                !.location = RedirectLocation(request)],
                               body |-> "empty",
                               text |-> <<>>])))

\* Whether try_dir_redirect gets as far as calling local_path_for_request
\* and Path::is_dir.
RedirectResolves(request) == ~EndsWith(request.path, "/")

\* format!(include_str!("client_template.html"), port = config.ws_port)
InjectedJs == <<"js1", "js2", "js3">>

\* File::open: the node the path names, or the I/O error of the walk.
FileOpen(fsys, path) ==
    With(Resolve(fsys, path),
         LAMBDA r : IF r.ok THEN r ELSE Err(FromIoError(r.err)))

\* file.metadata().len(); a directory has no bytes of its own here.
MetadataLen(fsys, node) ==
    IF node \in DOMAIN fsys.files THEN Len(fsys.files[node]) ELSE 0

\* The length respond_with_file announces.
ContentLength(fsys, node, path) ==
    MetadataLen(fsys, node)
    + (IF HasHtmlExtension(path) THEN Len(InjectedJs) ELSE 0)

\* The 200 response respond_with_file builds around the stream.
FileResponse(fsys, node, path) ==
    [status |-> StatusOk,
     headers |-> [EmptyHeaders EXCEPT
                      !.contentLength = ContentLength(fsys, node, path),
                      !.contentType = FilePathMime(path)],
     body |-> "stream",
     text |-> <<>>]

NoStream == [open |-> FALSE, node |-> <<>>, pos |-> 0, chain |-> FALSE, jsPos |-> 0]

\* Mutant: a failure to build the error page is passed on to hyper.
ServiceResultPropagates(response) ==
    IF response.body = "text" THEN Err(TemplateRender) ELSE Ok(response)

\* service_fn closure of run: serve(config, req).map(Ok::<_, Error>)
ServiceResult(response) == Ok(response)

(***************************************************************************)
(* The state machine.  One task serves one request at a time; its handler  *)
(* runs serve_or_error step by step, every filesystem call being a step,   *)
(* and hands exactly the value of serve to hyper.                          *)
(***************************************************************************)
TaskIds == {1}

Init ==
    /\ fs = InitialFs
    /\ templateOk \in BOOLEAN
    /\ pc = [t \in TaskIds |-> "idle"]
    /\ req = [t \in TaskIds |-> NoRequest]
    /\ localPath = [t \in TaskIds |-> <<>>]
    /\ stream = [t \in TaskIds |-> NoStream]
    /\ responses = [t \in TaskIds |-> <<>>]
    /\ delivered = [t \in TaskIds |-> <<>>]
    /\ errors = [t \in TaskIds |-> <<>>]
    /\ produced = [t \in TaskIds |-> <<>>]
    /\ fsLog = [t \in TaskIds |-> <<>>]

\* serve: the result of serve_or_error goes through transform_error and the
\* response is returned to hyper by the service_fn closure.
Reply(t, result, nextPc) ==
    /\ responses' = [responses EXCEPT
                        ![t] = Append(@, ServiceResult(TransformError(result)))]
    /\ errors' = [errors EXCEPT
                     ![t] = IF result.ok THEN @ ELSE Append(@, result.err)]
    /\ pc' = [pc EXCEPT ![t] = nextPc]

\* hyper calls the service with a request.
Accept(t) ==
    /\ pc[t] = "idle"
    /\ \E r \in Requests : req' = [req EXCEPT ![t] = r]
    /\ pc' = [pc EXCEPT ![t] = "method"]
    /\ UNCHANGED <<fs, templateOk, localPath, stream, responses, delivered,
                   errors, produced, fsLog>>

\* serve_or_error: the method gate.
MethodCheck(t) ==
    /\ pc[t] = "method"
    /\ \E unsup \in {HandleUnsupportedRequest(req[t])} :
       IF IsSome(unsup)
       THEN Reply(t, Unwrap(unsup), "done")
       ELSE /\ pc' = [pc EXCEPT ![t] = "redirect"]
            /\ UNCHANGED <<responses, errors>>
    /\ UNCHANGED <<fs, templateOk, req, localPath, stream, delivered,
                   produced, fsLog>>

\* serve_file: try_dir_redirect(req, &root_dir)?
RedirectCheck(t) ==
    /\ pc[t] = "redirect"
    /\ \E r \in {TryDirRedirect(req[t], RootDir, fs)},
          lp \in {LocalPathForRequest(req[t], RootDir)} :
       LET resolved == RedirectResolves(req[t]) /\ lp.ok
       IN /\ produced' = [produced EXCEPT
                             ![t] = IF resolved THEN Append(@, lp.val) ELSE @]
          /\ fsLog' = [fsLog EXCEPT
                          ![t] = IF resolved THEN Append(@, "is_dir") ELSE @]
          /\ IF ~r.ok THEN Reply(t, r, "done")
             ELSE IF IsSome(r.val) THEN Reply(t, Ok(Unwrap(r.val)), "done")
             ELSE /\ pc' = [pc EXCEPT ![t] = "resolve"]
                  /\ UNCHANGED <<responses, errors>>
    /\ UNCHANGED <<fs, templateOk, req, localPath, stream, delivered>>

\* serve_file: local_path_with_maybe_index(req.uri(), &root_dir)?
PathResolve(t) ==
    /\ pc[t] = "resolve"
    /\ \E r \in {LocalPathWithMaybeIndex(req[t], RootDir, fs)},
          lp \in {LocalPathForRequest(req[t], RootDir)} :
          /\ produced' = [produced EXCEPT
                             ![t] = IF lp.ok THEN Append(@, lp.val) ELSE @]
          /\ fsLog' = [fsLog EXCEPT
                          ![t] = IF lp.ok THEN Append(@, "is_dir") ELSE @]
          /\ IF ~r.ok
             THEN Reply(t, r, "done") /\ UNCHANGED localPath
             ELSE /\ localPath' = [localPath EXCEPT ![t] = r.val]
                  /\ pc' = [pc EXCEPT ![t] = "open"]
                  /\ UNCHANGED <<responses, errors>>
    /\ UNCHANGED <<fs, templateOk, req, stream, delivered>>

\* respond_with_file: File::open(path).await?
OpenFile(t) ==
    /\ pc[t] = "open"
    /\ fsLog' = [fsLog EXCEPT ![t] = Append(@, "open")]
    /\ \E r \in {FileOpen(fs, localPath[t])} :
       IF ~r.ok
       THEN Reply(t, r, "done") /\ UNCHANGED stream
       ELSE /\ stream' = [stream EXCEPT
                             ![t] = [NoStream EXCEPT !.open = TRUE, !.node = r.val]]
            /\ pc' = [pc EXCEPT ![t] = "metadata"]
            /\ UNCHANGED <<responses, errors>>
    /\ UNCHANGED <<fs, templateOk, req, localPath, delivered, produced>>

\* respond_with_file: file.metadata().await?, then the 200 response whose
\* body is the stream (the file, chained with the script for HTML).
RespondWithFile(t) ==
    /\ pc[t] = "metadata"
    /\ fsLog' = [fsLog EXCEPT ![t] = Append(@, "metadata")]
    /\ stream' = [stream EXCEPT ![t].chain = HasHtmlExtension(localPath[t])]
    /\ Reply(t, Ok(FileResponse(fs, stream[t].node, localPath[t])), "stream")
    /\ UNCHANGED <<fs, templateOk, req, localPath, delivered, produced>>

\* The bytes a read of the open file returns at the stream's position.
FileBytes(fsys, node) ==
    IF node \in DOMAIN fsys.files THEN fsys.files[node] ELSE <<>>

\* Mutant: the script is read before the file.
ChainSourceScriptFirst(st, bytes) ==
    IF st.chain /\ st.jsPos < Len(InjectedJs) THEN "script"
    ELSE IF st.pos < Len(bytes) THEN "file"
    ELSE "eof"

\* file.chain(Cursor::new(injected_js)): the reader the next read goes to,
\* the file until it returns no byte, then the cursor over the script.
ChainSource(st, bytes) ==
    IF st.pos < Len(bytes) THEN "file"
    ELSE IF st.chain /\ st.jsPos < Len(InjectedJs) THEN "script"
    ELSE "eof"

\* Mutant: the file stays open when the body is dropped.
DropBodyKeepsFile(st) == st

\* Dropping the Body drops the stream it wraps and the File the stream owns.
DropBody(st) == NoStream

\* hyper pulls the next chunk of the body: FramedRead reads the file until
\* its end, then (chained) the script, then the stream ends and the file
\* is dropped.  Reading a directory fails at once and ends the stream.
ReadChunk(t) ==
    /\ pc[t] = "stream"
    /\ \E st \in {stream[t]}, bytes \in {FileBytes(fs, stream[t].node)} :
          IF ChainSource(st, bytes) = "file"
          THEN LET n == Min(ChunkSize, Len(bytes) - st.pos) IN
               /\ delivered' = [delivered EXCEPT
                                   ![t] = @ \o SubSeq(bytes, st.pos + 1, st.pos + n)]
               /\ stream' = [stream EXCEPT ![t].pos = @ + n]
               /\ fsLog' = [fsLog EXCEPT ![t] = Append(@, "read")]
               /\ UNCHANGED pc
          ELSE IF ChainSource(st, bytes) = "script"
          THEN LET n == Min(ChunkSize, Len(InjectedJs) - st.jsPos) IN
               /\ delivered' = [delivered EXCEPT
                                   ![t] = @ \o SubSeq(InjectedJs, st.jsPos + 1,
                                                      st.jsPos + n)]
               /\ stream' = [stream EXCEPT ![t].jsPos = @ + n]
               /\ UNCHANGED <<pc, fsLog>>
          ELSE /\ stream' = [stream EXCEPT ![t] = NoStream]
               /\ pc' = [pc EXCEPT ![t] = "done"]
               /\ UNCHANGED <<delivered, fsLog>>
    /\ UNCHANGED <<fs, templateOk, req, localPath, responses, errors, produced>>

\* The request is over; the task takes the connection's next request.
Finish(t) ==
    /\ pc[t] = "done"
    /\ pc' = [pc EXCEPT ![t] = "idle"]
    /\ req' = [req EXCEPT ![t] = NoRequest]
    /\ localPath' = [localPath EXCEPT ![t] = <<>>]
    /\ stream' = [stream EXCEPT ![t] = NoStream]
    /\ responses' = [responses EXCEPT ![t] = <<>>]
    /\ delivered' = [delivered EXCEPT ![t] = <<>>]
    /\ errors' = [errors EXCEPT ![t] = <<>>]
    /\ produced' = [produced EXCEPT ![t] = <<>>]
    /\ fsLog' = [fsLog EXCEPT ![t] = <<>>]
    /\ UNCHANGED <<fs, templateOk>>

Next ==
    \E t \in TaskIds :
        \/ Accept(t)
        \/ MethodCheck(t)
        \/ RedirectCheck(t)
        \/ PathResolve(t)
        \/ OpenFile(t)
        \/ RespondWithFile(t)
        \/ ReadChunk(t)
        \/ Finish(t)

Spec == Init /\ [][Next]_vars

\* The runtime polls every task that can make progress, the filesystem
\* calls return, and hyper keeps pulling a body it is sending.
Handler(t) ==
    \/ MethodCheck(t)
    \/ RedirectCheck(t)
    \/ PathResolve(t)
    \/ OpenFile(t)
    \/ RespondWithFile(t)
    \/ ReadChunk(t)

FairSpec == Spec /\ \A t \in TaskIds : WF_vars(Handler(t))

(***************************************************************************)
(* Concurrent requests.  hyper runs one task per connection on the same    *)
(* runtime; every task holds its own clone of Config and its own request,  *)
(* and the tasks' steps interleave at every await.                         *)
(***************************************************************************)
ConcTaskIds == {1, 2}

ConcInit ==
    /\ fs = InitialFs
    /\ templateOk \in BOOLEAN
    /\ pc = [t \in ConcTaskIds |-> "idle"]
    /\ req = [t \in ConcTaskIds |-> NoRequest]
    /\ localPath = [t \in ConcTaskIds |-> <<>>]
    /\ stream = [t \in ConcTaskIds |-> NoStream]
    /\ responses = [t \in ConcTaskIds |-> <<>>]
    /\ delivered = [t \in ConcTaskIds |-> <<>>]
    /\ errors = [t \in ConcTaskIds |-> <<>>]
    /\ produced = [t \in ConcTaskIds |-> <<>>]
    /\ fsLog = [t \in ConcTaskIds |-> <<>>]

\* hyper calls the service with one of the sample requests.
AcceptSample(t) ==
    /\ pc[t] = "idle"
    /\ \E r \in SampleRequests : req' = [req EXCEPT ![t] = r]
    /\ pc' = [pc EXCEPT ![t] = "method"]
    /\ UNCHANGED <<fs, templateOk, localPath, stream, responses, delivered,
                   errors, produced, fsLog>>

ConcNext ==
    \E t \in ConcTaskIds :
        \/ AcceptSample(t)
        \/ MethodCheck(t)
        \/ RedirectCheck(t)
        \/ PathResolve(t)
        \/ OpenFile(t)
        \/ RespondWithFile(t)
        \/ ReadChunk(t)
        \/ Finish(t)

ConcSpec == ConcInit /\ [][ConcNext]_vars

(***************************************************************************)
(* The environment of one request: the client may close the connection     *)
(* while the body is streamed, and other processes write to the files the  *)
(* server reads, between any two of the handler's filesystem calls.        *)
(***************************************************************************)
\* The connection is dropped mid-stream: hyper drops the response body.
ConnectionDropped(t) ==
    /\ pc[t] = "stream"
    /\ stream' = [stream EXCEPT ![t] = DropBody(@)]
    /\ pc' = [pc EXCEPT ![t] = "dropped"]
    /\ UNCHANGED <<fs, templateOk, req, localPath, responses, delivered,
                   errors, produced, fsLog>>

\* The task of a dropped connection ends; the next connection gets a new one.
Close(t) ==
    /\ pc[t] = "dropped"
    /\ pc' = [pc EXCEPT ![t] = "idle"]
    /\ req' = [req EXCEPT ![t] = NoRequest]
    /\ localPath' = [localPath EXCEPT ![t] = <<>>]
    /\ stream' = [stream EXCEPT ![t] = NoStream]
    /\ responses' = [responses EXCEPT ![t] = <<>>]
    /\ delivered' = [delivered EXCEPT ![t] = <<>>]
    /\ errors' = [errors EXCEPT ![t] = <<>>]
    /\ produced' = [produced EXCEPT ![t] = <<>>]
    /\ fsLog' = [fsLog EXCEPT ![t] = <<>>]
    /\ UNCHANGED <<fs, templateOk>>

\* Another process writes a regular file in place: creates it, truncates
\* it or makes it longer.
OtherProcessWrites ==
    /\ \E node \in WritableNodes, bytes \in NewContents :
          /\ Parent(node) \in fs.dirs
          /\ node \notin fs.dirs
          /\ node \in DOMAIN fs.files => fs.files[node] # bytes
          /\ fs' = WriteFile(fs, node, bytes)
    /\ UNCHANGED <<templateOk, pc, req, localPath, stream, responses, delivered,
                   errors, produced, fsLog>>

\* Another process makes a directory where there was nothing.
OtherProcessMkdir ==
    /\ \E node \in NewDirs :
          /\ Parent(node) \in fs.dirs
          /\ node \notin FsNodes(fs)
          /\ fs' = CreateDir(fs, node)
    /\ UNCHANGED <<templateOk, pc, req, localPath, stream, responses, delivered,
                   errors, produced, fsLog>>

EnvNext ==
    \/ \E t \in TaskIds :
          \/ AcceptSample(t)
          \/ MethodCheck(t)
          \/ RedirectCheck(t)
          \/ PathResolve(t)
          \/ OpenFile(t)
          \/ RespondWithFile(t)
          \/ ReadChunk(t)
          \/ Finish(t)
          \/ ConnectionDropped(t)
          \/ Close(t)
    \/ OtherProcessWrites
    \/ OtherProcessMkdir

EnvSpec == Init /\ [][EnvNext]_vars

(***************************************************************************)
(* Vocabulary of the properties.                                           *)
(***************************************************************************)
\* The response the task's request got (defined once it has one).
TheResponse(t) == responses[t][1].val

\* The request of task t is a GET that the handler is serving or has served.
IsGet(t) == req[t].method = "GET"

\* A path with its empty components dropped and every ".." applied to what
\* precedes it: the names of the node the path denotes.
RECURSIVE Collapse(_, _)
Collapse(acc, segs) ==
    IF segs = <<>> THEN acc
    ELSE IF Head(segs) = <<>> THEN Collapse(acc, Tail(segs))
    ELSE IF Head(segs) = <<"..">>
    THEN Collapse(IF acc = <<>> THEN acc ELSE SubSeq(acc, 1, Len(acc) - 1), Tail(segs))
    ELSE Collapse(Append(acc, Head(segs)), Tail(segs))

UnderRootDir(path) ==
    LET names == Collapse(<<>>, SplitPath(path))
        root == Collapse(<<>>, SplitPath(RootDir))
    IN Len(names) >= Len(root) /\ SubSeq(names, 1, Len(root)) = root

\* The raw path's percent-decoded form is not valid UTF-8.
NotUtf8(t) == \E i \in 1..Len(req[t].path) : req[t].path[i] = "%FF"

\* The plaintext answer of transform_error when no error page can be made.
IsFallback(response) == response.body = "text"

(***************************************************************************)
(* C1.  Every path produced by local_path_for_request and by               *)
(* local_path_with_maybe_index is rooted under Config.root_dir, whatever   *)
(* the request URI (".." segments, a second leading "/").                  *)
(* The code does not keep this: PathBuf::push replaces the root by an      *)
(* absolute remainder, and ".." is kept as it comes.                       *)
(***************************************************************************)
C1_PathsRootedUnderRootDir ==
    \A t \in DOMAIN pc :
        /\ \A i \in 1..Len(produced[t]) : UnderRootDir(produced[t][i])
        /\ localPath[t] # <<>> => UnderRootDir(localPath[t])

C3_Precondition(t) ==
    /\ IsGet(t)
    /\ ~EndsWith(req[t].path, "/")
    /\ LocalPathForRequest(req[t], RootDir).ok
    /\ LET r == Resolve(fs, LocalPathForRequest(req[t], RootDir).val)
       IN r.ok /\ r.val \in fs.dirs

C3_DirectoryRedirect ==
    \A t \in DOMAIN pc :
        (C3_Precondition(t) /\ pc[t] \notin {"method", "redirect"}) =>
            /\ pc[t] = "done"
            /\ Len(responses[t]) = 1
            /\ responses[t][1].ok
            /\ TheResponse(t).status = 302
            /\ TheResponse(t).headers.location =
                   req[t].path \o <<"/">>
                   \o (IF req[t].query = <<>> THEN <<>>
                       ELSE <<"?">> \o req[t].query[1])
            /\ TheResponse(t).body = "empty"
            /\ TheResponse(t).text = <<>>
            /\ delivered[t] = <<>>
            /\ \A i \in 1..Len(fsLog[t]) : fsLog[t][i] = "is_dir"
            /\ ~stream[t].open

\* C3 witness: /docs?q=1 was redirected to /docs/?q=1.
C3_Witness ==
    \E t \in DOMAIN pc :
        /\ C3_Precondition(t)
        /\ pc[t] = "done"
        /\ req[t].query = <<<<"q=1">>>>
        /\ TheResponse(t).status = 302
        /\ TheResponse(t).headers.location = <<"/", "docs", "/", "?", "q=1">>

(***************************************************************************)
(* C4.  A GET whose raw path ends in "/" and resolves to an existing       *)
(* directory that contains index.html is not redirected: the response is   *)
(* 200 and its body is index.html's content followed by the script.        *)
(***************************************************************************)
C4_Precondition(t) ==
    /\ IsGet(t)
    /\ EndsWith(req[t].path, "/")
    /\ LocalPathForRequest(req[t], RootDir).ok
    /\ LET r == Resolve(fs, LocalPathForRequest(req[t], RootDir).val)
       IN /\ r.ok
          /\ r.val \in fs.dirs
          /\ (r.val \o <<"index.html">>) \in DOMAIN fs.files

C4_DirectoryIndexServed ==
    \A t \in DOMAIN pc :
        C4_Precondition(t) =>
            LET dir == Resolve(fs, LocalPathForRequest(req[t], RootDir).val).val
                index == fs.files[dir \o <<"index.html">>]
            IN /\ pc[t] \in {"method", "redirect", "resolve", "open", "metadata"}
                      => responses[t] = <<>>
               /\ pc[t] \in {"stream", "done"} =>
                      /\ Len(responses[t]) = 1
                      /\ responses[t][1].ok
                      /\ TheResponse(t).status = 200
                      /\ TheResponse(t).headers.location = <<>>
                      /\ TheResponse(t).body = "stream"
               /\ pc[t] = "done" => delivered[t] = index \o InjectedJs

\* C4 witness: /docs/ was answered with index.html and the script.
C4_Witness ==
    \E t \in DOMAIN pc :
        /\ C4_Precondition(t)
        /\ pc[t] = "done"
        /\ TheResponse(t).status = 200
        /\ delivered[t] = <<"h1", "h2", "h3", "js1", "js2", "js3">>

(***************************************************************************)
(* C5.  Original: a GET whose URI resolves to a path that does not exist   *)
(* on disk is answered with status exactly 404.                            *)
(***************************************************************************)
C5_Precondition(t) ==
    /\ IsGet(t)
    /\ LocalPathForRequest(req[t], RootDir).ok
    /\ ~Resolve(fs, LocalPathForRequest(req[t], RootDir).val).ok

C6_ContentLength ==
    \A t \in DOMAIN pc :
        (pc[t] \in {"stream", "done"} /\ Len(responses[t]) = 1
         /\ TheResponse(t).body = "stream") =>
            LET file == fs.files[Resolve(fs, localPath[t]).val]
                name == localPath[t][Len(localPath[t])]
                html == name \in {"index.html", "A.HTML"}
            IN /\ TheResponse(t).status = 200
               /\ TheResponse(t).headers.contentLength =
                      Len(file) + (IF html THEN Len(InjectedJs) ELSE 0)
               /\ pc[t] = "stream" => (stream[t].chain <=> html)
               /\ pc[t] = "done" =>
                      delivered[t] = (IF html THEN file \o InjectedJs ELSE file)

\* C6 witness: /A.HTML (one byte, upper-case extension) was sent with the
\* length of the file plus the script.
C6_Witness ==
    \E t \in DOMAIN pc :
        /\ req[t].path = <<"/", "A.HTML">>
        /\ pc[t] = "done"
        /\ TheResponse(t).body = "stream"
        /\ TheResponse(t).headers.contentLength = 1 + Len(InjectedJs)

C8_OtherErrors500 ==
    \A t \in DOMAIN pc :
        (errors[t] # <<>> /\ errors[t][1].kind # "Io") =>
            TheResponse(t).status = 500

(***************************************************************************)
(* C9.  A GET whose percent-decoded path is not valid UTF-8 fails with     *)
(* UriNotUtf8 and is answered with status 500, whether the raw path ends   *)
(* in "/" or not, and no file is opened.                                   *)
(* The status is not kept when the error page cannot be made (see C8).     *)
(***************************************************************************)
C9_NotUtf8Is500 ==
    \A t \in DOMAIN pc :
        (IsGet(t) /\ NotUtf8(t) /\ pc[t] = "done") =>
            /\ errors[t] = <<UriNotUtf8>>
            /\ \A i \in 1..Len(fsLog[t]) : fsLog[t][i] # "open"
            /\ TheResponse(t).status = 500

(***************************************************************************)
(* C10.  Every request handed to serve eventually gets exactly one         *)
(* response, on every path of the pipeline: the service never returns an   *)
(* error to hyper, never leaves a request unanswered, never answers twice. *)
(***************************************************************************)
C10_ExactlyOneResponse ==
    /\ [](\A t \in TaskIds :
            /\ Len(responses[t]) <= 1
            /\ \A i \in 1..Len(responses[t]) : responses[t][i].ok
            /\ pc[t] \in {"stream", "done"} => Len(responses[t]) = 1)
    /\ \A t \in TaskIds :
            (pc[t] = "method") ~> (pc[t] = "done" /\ Len(responses[t]) = 1)

\* C10 witness: a request whose error page could not be made was still
\* answered once.
C10_Witness ==
    \E t \in DOMAIN pc :
        /\ pc[t] = "done"
        /\ errors[t] # <<>>
        /\ Len(responses[t]) = 1
        /\ responses[t][1].ok
        /\ IsFallback(TheResponse(t))

(***************************************************************************)
(* C11.  When the error response itself cannot be made (the error page     *)
(* does not render), transform_error answers with a minimal plaintext      *)
(* response whose body is the description of that failure, so the request  *)
(* is still answered, once.                                                *)
(***************************************************************************)
C11_FallbackCarriesFailure ==
    \A t \in DOMAIN pc :
        (errors[t] # <<>> /\ ~templateOk) =>
            /\ pc[t] = "done"
            /\ Len(responses[t]) = 1
            /\ responses[t][1].ok
            /\ TheResponse(t).body = "text"
            /\ TheResponse(t).text =
                   <<"unexpected internal error: ", "failed to render template">>
            /\ TheResponse(t).headers.contentType = ""
            /\ TheResponse(t).headers.allow = ""

\* C11 witness: a missing file on a build whose error page does not render
\* was answered by the plaintext fallback.
C11_Witness ==
    \E t \in DOMAIN pc :
        /\ ~templateOk
        /\ errors[t] = <<IoError("NotFound")>>
        /\ pc[t] = "done"
        /\ TheResponse(t).body = "text"
        /\ TheResponse(t).text[2] = "failed to render template"

C13_Body(t) ==
    FileBytes(fs, Resolve(fs, localPath[t]).val)
    \o (IF localPath[t][Len(localPath[t])] \in {"index.html", "A.HTML"}
        THEN <<"js1", "js2", "js3">> ELSE <<>>)

C13_FileThenScript ==
    /\ [](\A t \in DOMAIN pc :
            /\ pc[t] \notin {"stream", "done"} => delivered[t] = <<>>
            /\ (pc[t] \in {"stream", "done"} /\ TheResponse(t).body = "stream") =>
                  /\ Len(delivered[t]) <= Len(C13_Body(t))
                  /\ delivered[t] = SubSeq(C13_Body(t), 1, Len(delivered[t]))
                  /\ pc[t] = "done" => delivered[t] = C13_Body(t))
    /\ [][\A t \in DOMAIN pc :
            pc'[t] = "stream" =>
                /\ Len(delivered'[t]) >= Len(delivered[t])
                /\ SubSeq(delivered'[t], 1, Len(delivered[t])) = delivered[t]]_vars

\* C13 witness: index.html has been delivered whole and the script has
\* begun, after it.
C13_Witness ==
    \E t \in DOMAIN pc :
        /\ pc[t] = "stream"
        /\ req[t].path = <<"/", "docs", "/">>
        /\ Len(delivered[t]) > 3
        /\ SubSeq(delivered[t], 1, 4) = <<"h1", "h2", "h3", "js1">>

(***************************************************************************)
(* C14.  The method check is the first step of every request: a non-GET    *)
(* request goes from the method check directly to the 405 error page and   *)
(* the response, with no URI decoding, no path resolution, no redirect     *)
(* check and no filesystem access (is_dir, open, metadata, read).          *)
(***************************************************************************)
C14_MethodCheckFirst ==
    /\ [](\A t \in DOMAIN pc :
            req[t].method = "POST" =>
                /\ pc[t] \in {"method", "done"}
                /\ fsLog[t] = <<>>
                /\ produced[t] = <<>>
                /\ localPath[t] = <<>>
                /\ delivered[t] = <<>>
                /\ ~stream[t].open
                /\ \A i \in 1..Len(errors[t]) : errors[t][i].kind = "TemplateRender"
                /\ pc[t] = "method" => responses[t] = <<>>
                /\ pc[t] = "done" =>
                      /\ Len(responses[t]) = 1
                      /\ TheResponse(t).body \in {"html", "text"}
                      /\ TheResponse(t).body = "html" =>
                            /\ TheResponse(t).status = 405
                            /\ TheResponse(t).text[2] = "405 Method Not Allowed")
    /\ [][\A t \in DOMAIN pc :
            (pc[t] = "method" /\ req[t].method = "POST" /\ pc'[t] # pc[t]) =>
                (pc'[t] = "done" /\ Len(responses'[t]) = 1)]_vars

\* C14 witness: a POST whose path is not valid UTF-8 and one whose path is
\* a directory were answered 405 with no decoding and no filesystem call.
C14_Witness ==
    \E t \in DOMAIN pc :
        /\ req[t].method = "POST"
        /\ req[t].path = <<"/", "%FF">>
        /\ pc[t] = "done"
        /\ errors[t] = <<>>
        /\ fsLog[t] = <<>>
        /\ TheResponse(t).status = 405

(***************************************************************************)
(* C15.  Requests are isolated under every interleaving of concurrent      *)
(* tasks: a step of one task changes nothing of another task, every        *)
(* response is decided by the task's own request and own failure (never    *)
(* by a failure of another request), the service never returns an error    *)
(* to hyper and an idle task can always accept the next request.           *)
(***************************************************************************)
C15_TaskState(t) ==
    <<pc[t], req[t], localPath[t], stream[t], responses[t], delivered[t],
      errors[t], produced[t], fsLog[t]>>

C15_OwnOutcome(t) ==
    LET status == TheResponse(t).status IN
    /\ responses[t][1].ok
    /\ errors[t] = <<>> =>
          /\ status \in {200, 302, 405}
          /\ status = 405 <=> req[t].method = "POST"
    /\ (errors[t] # <<>> /\ templateOk) =>
          /\ TheResponse(t).body = "html"
          /\ status = (IF errors[t][1].kind = "Io" THEN 404 ELSE 500)
    /\ (errors[t] # <<>> /\ ~templateOk) => TheResponse(t).body = "text"

C15_RequestsIsolated ==
    /\ [](\A t \in DOMAIN pc :
            /\ Len(responses[t]) <= 1
            /\ Len(responses[t]) = 1 => C15_OwnOutcome(t)
            /\ pc[t] = "idle" => ENABLED AcceptSample(t))
    /\ [][\A t \in DOMAIN pc : \A u \in DOMAIN pc :
            (t # u /\ C15_TaskState(t)' # C15_TaskState(t)) =>
                C15_TaskState(u)' = C15_TaskState(u)]_vars
    /\ [][fs' = fs /\ templateOk' = templateOk]_vars

\* C15 witness: one request failed (its file is missing) while the other,
\* in flight at the same time, was answered 200 and is being streamed.
C15_Witness ==
    \E t \in DOMAIN pc : \E u \in DOMAIN pc :
        /\ t # u
        /\ templateOk
        /\ pc[t] = "done"
        /\ errors[t] = <<IoError("NotFound")>>
        /\ TheResponse(t).status = 404
        /\ pc[u] = "stream"
        /\ delivered[u] # <<>>
        /\ TheResponse(u).status = 200

(***************************************************************************)
(* C16.  If the connection is dropped while a 200 response body is being   *)
(* streamed, streaming stops: no further chunk is read from the file, the  *)
(* open file is released, and the request is never retried or restarted;   *)
(* partial delivery is terminal for that request.                          *)
(***************************************************************************)
C16_DropIsTerminal ==
    /\ [](\A t \in DOMAIN pc :
            pc[t] = "dropped" =>
                /\ ~stream[t].open
                /\ Len(responses[t]) = 1
                /\ TheResponse(t).status = 200)
    /\ [][\A t \in DOMAIN pc :
            pc[t] = "dropped" =>
                \/ /\ pc'[t] = "dropped"
                   /\ delivered'[t] = delivered[t]
                   /\ fsLog'[t] = fsLog[t]
                   /\ responses'[t] = responses[t]
                   /\ stream'[t] = stream[t]
                \/ /\ pc'[t] = "idle"
                   /\ req'[t] = NoRequest
                   /\ responses'[t] = <<>>
                   /\ delivered'[t] = <<>>]_vars

\* C16 witness: the connection was dropped after the first chunk of
\* index.html; the rest was never read and the file is closed.
C16_Witness ==
    \E t \in DOMAIN pc :
        /\ pc[t] = "dropped"
        /\ delivered[t] # <<>>
        /\ Len(delivered[t]) < TheResponse(t).headers.contentLength
        /\ fsLog[t][Len(fsLog[t])] = "read"
        /\ ~stream[t].open

(***************************************************************************)
(* C17.  For every fully consumed 200 response the number of body bytes    *)
(* delivered equals the Content-Length that was sent, also when another    *)
(* process truncates, appends to or replaces the file between the          *)
(* metadata read and the end of streaming.                                 *)
(* The code does not keep this: the length is fixed from the metadata,     *)
(* but the stream reads the file as it is when each chunk is pulled.       *)
(***************************************************************************)
C17_DeliveredEqualsContentLength ==
    \A t \in DOMAIN pc :
        (pc[t] = "done" /\ Len(responses[t]) = 1
         /\ TheResponse(t).body = "stream") =>
            Len(delivered[t]) = TheResponse(t).headers.contentLength

(***************************************************************************)
(* C18.  For a GET whose raw path does not end in "/" the handler never    *)
(* appends index.html to the resolved path, so a directory's index is      *)
(* never served with 200 under a URL without the trailing slash, even      *)
(* when the filesystem changes between the directory test of               *)
(* try_dir_redirect and the one of local_path_with_maybe_index.            *)
(* The code does not keep this: the second test is made anew.              *)
(***************************************************************************)
C18_NoIndexWithoutSlash ==
    \A t \in DOMAIN pc :
        (IsGet(t) /\ ~EndsWith(req[t].path, "/") /\ localPath[t] # <<>>) =>
            localPath[t] = produced[t][Len(produced[t])]

(***************************************************************************)
(* C19.  Every response to a request whose processing ended in an error    *)
(* carries a 4xx or 5xx status; in particular the last-ditch plaintext     *)
(* fallback of transform_error is not sent with status 200.                *)
(* The code does not keep this: the fallback is built by Response::new.    *)
(***************************************************************************)
C19_ErrorResponsesCarryErrorStatus ==
    \A t \in DOMAIN pc :
        (errors[t] # <<>> /\ Len(responses[t]) = 1) =>
            (TheResponse(t).status >= 400 /\ TheResponse(t).status <= 599)

====
